---- MODULE Spec2Model ----
(***************************************************************************)
(* datad: the registry (two marker indexes in a hierarchical store), the   *)
(* node lifecycle (join, register existing keys, watch, balance) and the   *)
(* client (resolve a key, keyed failover transport).                       *)
(*                                                                         *)
(* A Go string is modelled as a sequence of tokens: the token "/" is the   *)
(* path separator, every other token stands for a run of characters that   *)
(* contains no separator ("nodes", "__keys", a node name, a key segment).  *)
(***************************************************************************)
EXTENDS Integers, Sequences, FiniteSets, TLC

(***************************************************************************)
(* Bounds of the model.                                                    *)
(***************************************************************************)
\* The most change events a watcher holds undelivered.
MaxRecv == 2

\* The most tokens of a string handed to slash and unslash.
MaxPathLen == 4

(***************************************************************************)
(* Strings.                                                                *)
(***************************************************************************)
Sep == "/"

\* The rank of a token in byte order ("/" sorts before letters and "_").
Code(tok) ==
    CASE tok = "/" -> 1
      [] tok = "A" -> 2
      [] tok = "B" -> 3
      [] tok = "__keys" -> 4
      [] tok = "__nodes" -> 5
      [] tok = "a" -> 6
      [] tok = "b" -> 7
      [] tok = "data" -> 8
      [] tok = "datad" -> 9
      [] tok = "nodes" -> 10
      [] tok = "q" -> 11
      [] OTHER -> 12

HasPrefix(s, p) == Len(p) <= Len(s) /\ SubSeq(s, 1, Len(p)) = p

HasSuffix(s, p) == Len(p) <= Len(s) /\ SubSeq(s, Len(s) - Len(p) + 1, Len(s)) = p

TrimPrefix(s, p) == IF HasPrefix(s, p) THEN SubSeq(s, Len(p) + 1, Len(s)) ELSE s

TrimSuffix(s, p) == IF HasSuffix(s, p) THEN SubSeq(s, 1, Len(s) - Len(p)) ELSE s

\* slash adds a leading slash if path does not contain one.
slash(path) ==
    IF Len(path) = 0 THEN <<Sep>>
    ELSE IF path[1] = Sep THEN path
    ELSE <<Sep>> \o path

\* unslash removes a leading slash from path if it contains one.
unslash(path) == TrimPrefix(path, <<Sep>>)

\* Lexicographic order on strings, by token rank.
RECURSIVE StrLess(_, _)
StrLess(s, t) ==
    IF Len(t) = 0 THEN FALSE
    ELSE IF Len(s) = 0 THEN TRUE
    ELSE IF Code(s[1]) # Code(t[1]) THEN Code(s[1]) < Code(t[1])
    ELSE StrLess(Tail(s), Tail(t))

\* The strings of a finite set, in increasing order.
RECURSIVE SortStrings(_)
SortStrings(S) ==
    IF S = {} THEN <<>>
    ELSE LET m == CHOOSE x \in S : \A y \in S \ {x} : StrLess(x, y)
         IN  <<m>> \o SortStrings(S \ {m})

SeqToSet(s) == {s[i] : i \in 1..Len(s)}

\* Collapse every run of separators to one and drop a trailing separator
\* (the root "/" stays "/").
RECURSIVE Squeeze(_)
Squeeze(s) ==
    IF Len(s) <= 1 THEN s
    ELSE IF s[1] = Sep /\ s[2] = Sep THEN Squeeze(Tail(s))
    ELSE <<s[1]>> \o Squeeze(Tail(s))

CleanPath(s) ==
    LET q == Squeeze(s)
    IN  IF Len(q) > 1 /\ q[Len(q)] = Sep THEN SubSeq(q, 1, Len(q) - 1) ELSE q

RECURSIVE JoinWithSep(_)
JoinWithSep(components) ==
    IF Len(components) = 0 THEN <<>>
    ELSE IF Len(components) = 1 THEN components[1]
    ELSE components[1] \o <<Sep>> \o JoinWithSep(Tail(components))

\* keyPathJoin composes a store path from its components.
keyPathJoin(components) == CleanPath(JoinWithSep(components))

nodesPrefix == <<Sep, "nodes">>

dataPrefix == <<Sep, "data">>

DefaultKeyPrefix == <<Sep, "datad", Sep>>

RootKeyPrefix == <<Sep>>

(***************************************************************************)
(* State.                                                                  *)
(***************************************************************************)
VARIABLES
    keyPrefix,  \* EtcdBackend.keyPrefix, as NewEtcdBackend stored it
    rawKey,     \* the string a caller hands to slash and unslash
    updating,   \* updating[n]: the goroutines of n that are inside Provider.Update
    leaves,     \* the store's value entries (full paths)
    dirs,       \* the store's directories (full paths)
    ttl,        \* the directories that carry a TTL, with the seconds left
    vals,       \* the value entries of the store that hold a non-empty value
    mem,        \* InMemoryBackend.m: the map from key to value
    inflight,   \* the calls that have read or written once and have a write left
    provider,   \* provider[n]: the keys of node n's local data source
    nstate,     \* nstate[n]: "new", "running", "stopped", "suspended", "crashed" or "failed"
    tr,         \* the client's keyed transport (NoTransport before TransportForKey)
    watching,   \* the nodes whose watcher has its watch established
    recv,       \* recv[n]: the change events sent to n's watcher, not yet handled
    tasks,      \* tasks[n]: the background goroutines of n that have not returned
    cycles      \* the number of balancer cycles run so far, modulo 2

vars == <<keyPrefix, rawKey, updating, leaves, dirs, ttl, vals, mem, inflight, provider, nstate, tr, watching, recv, tasks, cycles>>

(***************************************************************************)
(* The coordination store behind EtcdBackend.  A store value st is what    *)
(* an operation threads through its backend calls: the entries, the        *)
(* change events the calls produced (ev), and budget, the number of calls  *)
(* the store still answers before it fails (NoFail: it never fails).       *)
(***************************************************************************)
NoFail == 0 - 1

ErrNil == "nil"

ErrKeyNotFound == "etcd100"

ErrNotAFile == "etcd102"

ErrCoordination == "coordination"

Store(b) == [leaves |-> leaves, dirs |-> dirs, ttl |-> ttl, vals |-> vals, ev |-> <<>>, budget |-> b]

Answers(st) == st.budget # 0

Spend(st) == IF st.budget > 0 THEN [st EXCEPT !.budget = @ - 1] ELSE st

\* The directories a path lies in (the root excluded).
Ancestors(p) == {SubSeq(p, 1, i - 1) : i \in {j \in 2..Len(p) : p[j] = Sep}}

Exists(st, p) == p \in st.leaves \/ p \in st.dirs

\* NewEtcdBackend: the prefix loses one trailing slash and gets a leading one.
NewEtcdBackend(prefix) == slash(TrimSuffix(prefix, <<Sep>>))

fullKey(keyWithoutPrefix) == keyPathJoin(<<keyPrefix, keyWithoutPrefix>>)

\* A set that changes nothing and tells no watcher when the entry exists.
EtcdSetIfAbsent(st, key) ==
    LET p == fullKey(key)
    IN  IF ~Answers(st) THEN [st |-> st, err |-> ErrCoordination]
        ELSE IF p \in st.dirs THEN [st |-> Spend(st), err |-> ErrNotAFile]
        ELSE IF p \in st.leaves THEN [st |-> Spend(st), err |-> ErrNil]
        ELSE [st |-> [Spend(st) EXCEPT !.leaves = @ \cup {p},
                                       !.dirs = @ \cup Ancestors(p),
                                       !.ev = Append(@, [action |-> "set", key |-> p])],
              err |-> ErrNil]

EtcdSet(st, key) ==
    LET p == fullKey(key)
    IN  IF ~Answers(st) THEN [st |-> st, err |-> ErrCoordination]
        ELSE IF p \in st.dirs THEN [st |-> Spend(st), err |-> ErrNotAFile]
        ELSE [st |-> [Spend(st) EXCEPT !.leaves = @ \cup {p},
                                       !.dirs = @ \cup Ancestors(p),
                                       !.vals = [q \in DOMAIN @ \ {p} |-> @[q]],
                                       !.ev = Append(@, [action |-> "set", key |-> p])],
              err |-> ErrNil]

\* Set with a value that need not be empty.
EtcdSetValue(st, key, value) ==
    LET p == fullKey(key)
        r == EtcdSet(st, key)
    IN  IF r.err # ErrNil \/ value = <<>> THEN r
        ELSE [r EXCEPT !.st.vals = [q \in DOMAIN @ \cup {p} |-> IF q = p THEN value ELSE @[q]]]

EtcdDelete(st, key) ==
    LET p == fullKey(key)
    IN  IF ~Answers(st) THEN [st |-> st, err |-> ErrCoordination]
        ELSE IF p \in st.dirs THEN [st |-> Spend(st), err |-> ErrNotAFile]
        ELSE IF p \notin st.leaves THEN [st |-> Spend(st), err |-> ErrKeyNotFound]
        ELSE [st |-> [Spend(st) EXCEPT !.leaves = @ \ {p},
                                       !.ev = Append(@, [action |-> "delete", key |-> p])],
              err |-> ErrNil]

\* The entries below directory k: all of them, or its children only.
Below(st, k, recursive) ==
    LET kslash == IF k = <<Sep>> THEN k ELSE k \o <<Sep>>
    IN  {e \in st.leaves \cup st.dirs :
            /\ e # k
            /\ HasPrefix(e, kslash)
            /\ recursive \/ Sep \notin SeqToSet(TrimPrefix(e, kslash))}

RECURSIVE TrimAll(_, _)
TrimAll(paths, rmPrefix) ==
    IF Len(paths) = 0 THEN <<>>
    ELSE <<TrimPrefix(paths[1], rmPrefix)>> \o TrimAll(Tail(paths), rmPrefix)

\* A listing that hands the store's error 100 to its caller.
listStrict(st, key, recursive, keysOnly) ==
    LET k == fullKey(key)
        rmPrefix == TrimSuffix(k, <<Sep>>) \o <<Sep>>
        found == {e \in Below(st, k, recursive) : ~keysOnly \/ e \notin st.dirs}
    IN  IF ~Answers(st) THEN [st |-> st, err |-> ErrCoordination, keys |-> <<>>]
        ELSE IF ~Exists(st, k) THEN [st |-> Spend(st), err |-> ErrKeyNotFound, keys |-> <<>>]
        ELSE [st |-> Spend(st), err |-> ErrNil,
              keys |-> TrimAll(SortStrings(found), rmPrefix)]

list(st, key, recursive, keysOnly) ==
    LET k == fullKey(key)
        rmPrefix == TrimSuffix(k, <<Sep>>) \o <<Sep>>
        found == {e \in Below(st, k, recursive) : ~keysOnly \/ e \notin st.dirs}
    IN  IF ~Answers(st) THEN [st |-> st, err |-> ErrCoordination, keys |-> <<>>]
        ELSE IF ~Exists(st, k) THEN [st |-> Spend(st), err |-> ErrNil, keys |-> <<>>]
        ELSE [st |-> Spend(st), err |-> ErrNil,
              keys |-> TrimAll(SortStrings(found), rmPrefix)]

EtcdListKeys(st, key, recursive) == list(st, key, recursive, TRUE)

EtcdList(st, key, recursive) == list(st, key, recursive, FALSE)

(***************************************************************************)
(* Registry.                                                               *)
(***************************************************************************)
nodesForKeyDir(key) == keyPathJoin(<<dataPrefix, key, <<"__nodes">>>>)

keysForNodeDir(node) == keyPathJoin(<<nodesPrefix, node, <<"__keys">>>>)

KeysForNode(st, node) == EtcdListKeys(st, keysForNodeDir(node), TRUE)

NodesForKey(st, key) == EtcdListKeys(st, nodesForKeyDir(key), TRUE)

\* The two marker entries of the pair (key, node), as the store holds them.
DataMarker(key, node) == fullKey(nodesForKeyDir(key) \o <<Sep>> \o node)

KeyMarker(node, key) == fullKey(keysForNodeDir(node) \o <<Sep>> \o key)

\* A registration that writes the data index only.
AddDataMarkerOnly(st, key, node) == EtcdSet(st, nodesForKeyDir(key) \o <<Sep>> \o node)

\* A deregistration that deletes from the data index only.
RemoveDataMarkerOnly(st, key, node) == EtcdDelete(st, nodesForKeyDir(key) \o <<Sep>> \o node)

RegistryAdd(st, key, node) ==
    LET r1 == EtcdSet(st, nodesForKeyDir(key) \o <<Sep>> \o node)
        r2 == EtcdSet(r1.st, keysForNodeDir(node) \o <<Sep>> \o key)
    IN  IF r1.err # ErrNil THEN r1 ELSE r2

RegistryRemove(st, key, node) ==
    LET r1 == EtcdDelete(st, nodesForKeyDir(key) \o <<Sep>> \o node)
        r2 == EtcdDelete(r1.st, keysForNodeDir(node) \o <<Sep>> \o key)
    IN  IF r1.err # ErrNil THEN r1 ELSE r2


(***************************************************************************)
(* Naming utilities and the provider.                                      *)
(***************************************************************************)
RECURSIVE SumCodes(_)
SumCodes(s) == IF Len(s) = 0 THEN 0 ELSE Code(s[1]) + SumCodes(Tail(s))

\* keyBucket: a stable hash of the key modulo the number of buckets.
keyBucket(key, numBuckets) == SumCodes(key) % numBuckets

ErrKeyNotExist == "key does not exist"

\* InMemoryKeyVersioner.Keys: the keys below keyPrefix, as suffixes of it
\* (a set: the map iteration yields them in any order).
ProviderKeys(n, prefix) ==
    LET p1 == IF HasPrefix(prefix, <<Sep>>) THEN prefix ELSE <<Sep>> \o prefix
        p2 == IF HasSuffix(p1, <<Sep>>) THEN p1 ELSE p1 \o <<Sep>>
    IN  {TrimPrefix(k, p2) : k \in {x \in provider[n] : HasPrefix(x, p2)}}

\* FakeProvider.Update: succeeds when the provider has the key.
ProviderUpdate(n, key) ==
    LET k == IF HasPrefix(key, <<Sep>>) THEN key ELSE <<Sep>> \o key
    IN  IF k \in provider[n] THEN ErrNil ELSE ErrKeyNotExist

\* EtcdBackend.Get: the value of an entry (every entry the registry writes
\* holds the empty string), ErrKeyNotExist when the store answers error 100.
EtcdGet(st, key) ==
    LET p == fullKey(key)
    IN  IF ~Answers(st) THEN [st |-> st, err |-> ErrCoordination, value |-> <<>>]
        ELSE IF ~Exists(st, p) THEN [st |-> Spend(st), err |-> ErrKeyNotExist, value |-> <<>>]
        ELSE [st |-> Spend(st), err |-> ErrNil,
              value |-> IF p \in st.leaves /\ p \in DOMAIN st.vals THEN st.vals[p] ELSE <<>>]

(***************************************************************************)
(* Client.                                                                 *)
(***************************************************************************)
None == "none"

ErrNoNodesForKey == "key has no nodes"

ErrPanic == "panic"

\* A listing of the whole subtree below the membership root.
NodesInClusterSubtree(st) == EtcdList(st, nodesPrefix, TRUE)

NodesInCluster(st) == EtcdList(st, nodesPrefix, FALSE)

ClientNodesForKey(st, key) == NodesForKey(st, key)

\* The loop of Client.update that re-adds every registered node.
RECURSIVE AddEach(_, _, _)
AddEach(st, key, nodes) ==
    IF Len(nodes) = 0 THEN [st |-> st, err |-> ErrNil]
    ELSE LET r == RegistryAdd(st, key, nodes[1])
         IN  IF r.err # ErrNil THEN r ELSE AddEach(r.st, key, Tail(nodes))

\* Client.update; clusterNodes is empty for a caller that passes nil.
update(st, key, clusterNodes) ==
    LET r0 == NodesForKey(st, key)
        rc == IF Len(clusterNodes) = 0 THEN NodesInCluster(r0.st)
              ELSE [st |-> r0.st, err |-> ErrNil, keys |-> clusterNodes]
        regNode == rc.keys[keyBucket(key, Len(rc.keys)) + 1]
        ra == RegistryAdd(rc.st, key, regNode)
        re == AddEach(r0.st, key, r0.keys)
    IN  IF r0.err # ErrNil THEN [st |-> r0.st, err |-> r0.err, nodes |-> <<>>]
        ELSE IF Len(r0.keys) = 0 THEN
            IF rc.err # ErrNil THEN [st |-> rc.st, err |-> rc.err, nodes |-> <<>>]
            ELSE IF Len(rc.keys) = 0 THEN [st |-> rc.st, err |-> ErrPanic, nodes |-> <<>>]
            ELSE IF ra.err # ErrNil THEN [st |-> ra.st, err |-> ra.err, nodes |-> <<>>]
            ELSE [st |-> ra.st, err |-> ErrNil, nodes |-> <<regNode>>]
        ELSE IF re.err # ErrNil THEN [st |-> re.st, err |-> re.err, nodes |-> <<>>]
        ELSE [st |-> re.st, err |-> ErrNil, nodes |-> r0.keys]

ClientUpdate(st, key) == update(st, key, <<>>)

NoTransport == [key |-> <<>>, nodes |-> <<>>]

\* A transport built without looking at the number of nodes.
transportForAnyNodes(key, nodes) == [t |-> [key |-> key, nodes |-> nodes], err |-> ErrNil]

transportForKey(key, nodes) ==
    IF Len(nodes) = 0 THEN [t |-> NoTransport, err |-> ErrNoNodesForKey]
    ELSE [t |-> [key |-> key, nodes |-> nodes], err |-> ErrNil]

TransportForKey(st, key) ==
    LET r == ClientNodesForKey(st, key)
        t == transportForKey(key, r.keys)
    IN  IF r.err # ErrNil THEN [st |-> r.st, t |-> NoTransport, err |-> r.err]
        ELSE [st |-> r.st, t |-> t.t, err |-> t.err]

(***************************************************************************)
(* What a node answers to one request: a transport error, or a status      *)
(* with a body that can be read or not.                                    *)
(***************************************************************************)
TransportError == [kind |-> "error", status |-> 0, body |-> FALSE]

Http(status) == [kind |-> "http", status |-> status, body |-> TRUE]

BrokenBody(status) == [kind |-> "http", status |-> status, body |-> FALSE]

StatusOK == 200

StatusLastSuccess == 399

\* Every response with a status counts as a success.
SucceedsAnyStatus(r) == r.kind = "http"

Succeeds(r) == r.kind = "http" /\ r.status >= StatusOK /\ r.status <= StatusLastSuccess

\* The error value RoundTrip holds after a failed attempt on node.
AttemptError(node, r) ==
    IF r.kind = "error" THEN [kind |-> "transport", node |-> node, status |-> 0]
    ELSE [kind |-> "HTTPError", node |-> node, status |-> r.status]

NoError == [kind |-> "nil", node |-> None, status |-> 0]

NoResponse == [node |-> None, status |-> 0]

\* keyTransport.RoundTrip from candidate i on; answer[n] is what node n
\* answers, log the attempts and removals made so far.
RECURSIVE RoundTripFrom(_, _, _, _, _)
RoundTripFrom(st, t, answer, i, log) ==
    LET node == t.nodes[i]
        r == answer[node]
        tried == Append(log, [do |-> "try", node |-> node, err |-> ErrNil])
        rm == RegistryRemove(st, t.key, node)
        removed == Append(tried, [do |-> "remove", node |-> node, err |-> rm.err])
    IN  IF Succeeds(r) THEN
            [st |-> st, resp |-> [node |-> node, status |-> r.status],
             err |-> NoError, log |-> tried]
        ELSE IF r.kind = "http" /\ ~r.body THEN
            [st |-> st, resp |-> NoResponse,
             err |-> [kind |-> "read", node |-> node, status |-> r.status], log |-> tried]
        ELSE IF rm.err # ErrNil THEN
            [st |-> rm.st, resp |-> NoResponse,
             err |-> [kind |-> rm.err, node |-> node, status |-> 0], log |-> removed]
        ELSE IF i = Len(t.nodes) THEN
            [st |-> rm.st, resp |-> NoResponse, err |-> AttemptError(node, r), log |-> removed]
        ELSE RoundTripFrom(rm.st, t, answer, i + 1, removed)

RoundTrip(st, t, answer) == RoundTripFrom(st, t, answer, 1, <<>>)


(***************************************************************************)
(* Node.                                                                   *)
(***************************************************************************)
NodeMembershipTTL == 5

WithTTL(f, p, seconds) == [q \in DOMAIN f \cup {p} |-> IF q = p THEN seconds ELSE f[q]]

\* Backend.SetDir: create a directory with a TTL; 102 when the path exists.
EtcdSetDir(st, key, seconds) ==
    LET p == fullKey(key)
    IN  IF ~Answers(st) THEN [st |-> st, err |-> ErrCoordination]
        ELSE IF Exists(st, p) THEN [st |-> Spend(st), err |-> ErrNotAFile]
        ELSE [st |-> [Spend(st) EXCEPT !.dirs = @ \cup {p} \cup Ancestors(p),
                                       !.ttl = WithTTL(@, p, seconds),
                                       !.ev = Append(@, [action |-> "set", key |-> p])],
              err |-> ErrNil]

\* Backend.UpdateDir: refresh the TTL of a directory that exists.
EtcdUpdateDir(st, key, seconds) ==
    LET p == fullKey(key)
    IN  IF ~Answers(st) THEN [st |-> st, err |-> ErrCoordination]
        ELSE IF p \in st.leaves THEN [st |-> Spend(st), err |-> ErrNotAFile]
        ELSE IF p \notin st.dirs THEN [st |-> Spend(st), err |-> ErrKeyNotFound]
        ELSE [st |-> [Spend(st) EXCEPT !.ttl = WithTTL(@, p, seconds),
                                       !.ev = Append(@, [action |-> "update", key |-> p])],
              err |-> ErrNil]

isEtcdErrorCode(err, code) == (code = 102 /\ err = ErrNotAFile) \/ (code = 100 /\ err = ErrKeyNotFound)

\* A refresh that only tries to create the directory.
refreshBySetDirOnly(st, n) == EtcdSetDir(st, keyPathJoin(<<nodesPrefix, n>>), NodeMembershipTTL)

refreshClusterMembership(st, n) ==
    LET r1 == EtcdSetDir(st, keyPathJoin(<<nodesPrefix, n>>), NodeMembershipTTL)
        r2 == EtcdUpdateDir(r1.st, keyPathJoin(<<nodesPrefix, n>>), NodeMembershipTTL)
    IN  IF isEtcdErrorCode(r1.err, 102) THEN r2 ELSE r1

joinCluster(st, n) == refreshClusterMembership(st, n)

\* The membership directory of node n, as the store holds it.
MemberDir(n) == fullKey(keyPathJoin(<<nodesPrefix, n>>))

\* Entry e is directory p or lies below it.
Under(p, e) == e = p \/ HasPrefix(e, p \o <<Sep>>)

\* One second passes in the store: every TTL loses a second, and a directory
\* whose TTL has elapsed is removed together with everything below it.
Tick(st) ==
    LET gone == {p \in DOMAIN st.ttl : st.ttl[p] <= 1}
        lost(e) == \E p \in gone : Under(p, e)
        sorted == SortStrings(gone)
    IN  [st EXCEPT !.leaves = {e \in st.leaves : ~lost(e)},
                   !.dirs = {e \in st.dirs : ~lost(e)},
                   !.ttl = [q \in DOMAIN st.ttl \ gone |-> st.ttl[q] - 1],
                   !.ev = st.ev \o [i \in 1..Len(sorted) |->
                                        [action |-> "expire", key |-> sorted[i]]]]

\* The loop of registerExistingKeys.
RECURSIVE AddKeys(_, _, _)
AddKeys(st, keys, n) ==
    IF Len(keys) = 0 THEN [st |-> st, err |-> ErrNil]
    ELSE LET r == RegistryAdd(st, keys[1], n)
         IN  IF r.err # ErrNil THEN r ELSE AddKeys(r.st, Tail(keys), n)

\* A start that registers none of the provider's keys.
registerNoKeys(st, n, keys) == [st |-> st, err |-> ErrNil]

\* registerExistingKeys; keys is what Provider.Keys("") returned.
registerExistingKeys(st, n, keys) == AddKeys(st, keys, n)

\* Node.Start, up to launching the watcher and the balancer.
Start(st, n, keys) ==
    LET r1 == joinCluster(st, n)
        r2 == registerExistingKeys(r1.st, n, keys)
    IN  IF r1.err # ErrNil THEN r1 ELSE r2

\* Registry.KeyMap: every key of the data index with its registered nodes
\* (a key is in the data index when its __nodes directory exists).
KeyMapKeys(st) ==
    LET root == fullKey(dataPrefix)
    IN  {slash(TrimSuffix(TrimPrefix(e, root \o <<Sep>>), <<Sep, "__nodes">>)) :
            e \in {x \in st.dirs : HasPrefix(x, root \o <<Sep>>)
                                   /\ HasSuffix(x, <<Sep, "__nodes">>)}}

KeyMap(st) ==
    LET keys == KeyMapKeys(st)
    IN  IF ~Answers(st) THEN [st |-> st, err |-> ErrCoordination, map |-> <<>>]
        ELSE [st |-> Spend(st), err |-> ErrNil,
              map |-> [k \in keys |-> NodesForKey(st, k).keys]]

\* The liveness checks of one key in Node.balance: one request per
\* registered node, through a transport restricted to that node.
RECURSIVE CheckLiveness(_, _, _, _)
CheckLiveness(st, key, nodes, answer) ==
    IF Len(nodes) = 0 THEN st
    ELSE LET t == transportForKey(key, <<nodes[1]>>).t
             r == RoundTrip(st, t, answer)
         IN  CheckLiveness(r.st, key, Tail(nodes), answer)

\* The loop of Node.balance over the keys of the snapshot, in the order the
\* map iteration yields them; acc collects what the cycle did.
RECURSIVE BalanceKeys(_, _, _, _, _, _, _, _)
BalanceKeys(st, n, keyMap, clusterNodes, order, answer, x, acc) ==
    IF Len(order) = 0 THEN [st |-> st, err |-> ErrNil, healed |-> acc.healed, updates |-> acc.updates]
    ELSE LET key == order[1]
             nodes == keyMap[key]
             regNode == clusterNodes[keyBucket(key, Len(clusterNodes)) + 1]
             ra == RegistryAdd(st, key, regNode)
             live == CheckLiveness(st, key, nodes, answer)
             upd == IF x = 0 /\ n \in SeqToSet(nodes) THEN {key} ELSE {}
         IN  IF Len(nodes) = 0 THEN
                 IF Len(clusterNodes) = 0 THEN
                     [st |-> st, err |-> ErrPanic, healed |-> acc.healed, updates |-> acc.updates]
                 ELSE IF ra.err # ErrNil THEN
                     [st |-> ra.st, err |-> ra.err, healed |-> acc.healed, updates |-> acc.updates]
                 ELSE BalanceKeys(ra.st, n, keyMap, clusterNodes, Tail(order), answer, x,
                                  [acc EXCEPT !.healed = @ \cup {<<key, regNode>>}])
             ELSE BalanceKeys(live, n, keyMap, clusterNodes, Tail(order), answer, x,
                              [acc EXCEPT !.updates = @ \cup upd])

\* A cycle that reads nothing and writes nothing.
balanceNothing(st, n, order, answer, x) ==
    [st |-> st, err |-> ErrNil, healed |-> {}, updates |-> {}]

\* Node.balance: one balancer cycle of node n.
balance(st, n, order, answer, x) ==
    LET km == KeyMap(st)
        cn == NodesInCluster(km.st)
        none == [healed |-> {}, updates |-> {}]
    IN  IF km.err # ErrNil THEN [st |-> km.st, err |-> km.err, healed |-> {}, updates |-> {}]
        ELSE IF DOMAIN km.map = {} THEN [st |-> km.st, err |-> ErrNil, healed |-> {}, updates |-> {}]
        ELSE IF cn.err # ErrNil THEN [st |-> cn.st, err |-> cn.err, healed |-> {}, updates |-> {}]
        ELSE BalanceKeys(cn.st, n, km.map, cn.keys, order, answer, x, none)


(***************************************************************************)
(* The watcher of a node: an etcd watch on watchKey and its subtree, and   *)
(* the loop that handles what the watch receives.                          *)
(***************************************************************************)
\* The key watchRegisteredKeys hands to etcd.Watch.
watchKey(n) == keysForNodeDir(n)

\* A recursive watch on w sees the changes of w and of everything below it.
Watches(w, path) == path = w \/ HasPrefix(path, w \o <<Sep>>)

IsDelete(action) == action = "delete"

\* The events ev, appended to the receive queue of every watcher that sees them.
RECURSIVE Route(_, _, _)
Route(w, rc, ev) ==
    IF Len(ev) = 0 THEN rc
    ELSE Route(w, [n \in DOMAIN rc |->
                      IF n \in w /\ Watches(watchKey(n), ev[1].key)
                      THEN Append(rc[n], ev[1]) ELSE rc[n]],
               Tail(ev))

\* The key of a marker path in the node index of n, as the registry names it.
MarkerKey(n, path) == slash(TrimPrefix(path, fullKey(keysForNodeDir(n)) \o <<Sep>>))

\* A pass of the receive loop that returns when Provider.Update fails.
HandleEventFatal(n, e) ==
    LET key == TrimPrefix(e.key, watchKey(n) \o <<Sep>>)
        err == IF IsDelete(e.action) THEN ErrNil ELSE ProviderUpdate(n, key)
    IN  [key |-> key, called |-> ~IsDelete(e.action), err |-> err, returns |-> err # ErrNil]

\* One pass of the receive loop of watchRegisteredKeys over event e: the
\* key it derives, whether it calls Provider.Update, the error of that call,
\* and whether the goroutine returns afterwards (the case has no return).
HandleEvent(n, e) ==
    LET key == TrimPrefix(e.key, watchKey(n) \o <<Sep>>)
    IN  [key |-> key,
         called |-> ~IsDelete(e.action),
         err |-> IF IsDelete(e.action) THEN ErrNil ELSE ProviderUpdate(n, key),
         returns |-> FALSE]

(***************************************************************************)
(* The system: one coordination store, two nodes with their providers,     *)
(* one client.  Every action is one completed call.                        *)
(***************************************************************************)
Keys == {<<Sep, "a">>, <<Sep, "b">>}

Nodes == {<<"A">>, <<"B">>}

\* The key an external agent writes into a node's index.
ExternalKey == <<Sep, "q">>

Responses ==
    {TransportError, Http(199), Http(StatusOK), Http(StatusLastSuccess), Http(400), Http(500),
     BrokenBody(500)}

\* The local data of the two providers: disjoint keys, or all keys on one node.
DisjointKeys == [n \in Nodes |-> IF n = <<"A">> THEN {<<Sep, "a">>} ELSE {<<Sep, "b">>}]

AllKeysOnA == [n \in Nodes |-> IF n = <<"A">> THEN {<<Sep, "a">>, <<Sep, "b">>} ELSE {}]

ProviderConfigs == {DisjointKeys, AllKeysOnA}

\* The goroutines Node.Start leaves running: the lease refresher of
\* joinCluster, the key watcher and the balancer.
BackgroundTasks == {"refresher", "watcher", "balancer"}

\* What the nodes answer to the liveness requests of one balancer cycle.
LivenessAnswers ==
    {[m \in Nodes |-> IF m \in up THEN Http(StatusOK) ELSE Http(500)] : up \in SUBSET Nodes}

\* The orders in which an iteration can yield the elements of S.
Orders(S) == {o \in [1..Cardinality(S) -> S] : \A i, j \in DOMAIN o : o[i] = o[j] => i = j}

InitWith(prefixes, configs) ==
    /\ keyPrefix \in {NewEtcdBackend(p) : p \in prefixes}
    /\ rawKey = <<>>
    /\ updating = [n \in Nodes |-> {}]
    /\ leaves = {}
    /\ dirs = {}
    /\ ttl = <<>>
    /\ vals = <<>>
    /\ mem = <<>>
    /\ inflight = {}
    /\ provider \in configs
    /\ nstate = [n \in Nodes |-> "new"]
    /\ tr = NoTransport
    /\ watching = {}
    /\ recv = [n \in Nodes |-> <<>>]
    /\ tasks = [n \in Nodes |-> {}]
    /\ cycles = 0

Init == InitWith({DefaultKeyPrefix}, ProviderConfigs)

\* The store after a call, and its change events on their way to the watchers.
Commit(st) ==
    /\ leaves' = st.leaves
    /\ dirs' = st.dirs
    /\ ttl' = st.ttl
    /\ vals' = [q \in DOMAIN st.vals \cap st.leaves |-> st.vals[q]]
    /\ recv' = Route(watching, recv, st.ev)
    /\ \A n \in Nodes : Len(recv'[n]) <= MaxRecv

DoAdd ==
    \E k \in Keys, n \in Nodes :
        LET r == RegistryAdd(Store(NoFail), k, n)
        IN  /\ Commit(r.st)
            /\ UNCHANGED <<keyPrefix, mem, inflight, rawKey, updating, cycles, tasks, provider, nstate, tr, watching>>

DoRemove ==
    \E k \in Keys, n \in Nodes :
        LET r == RegistryRemove(Store(NoFail), k, n)
        IN  /\ Commit(r.st)
            /\ UNCHANGED <<keyPrefix, mem, inflight, rawKey, updating, cycles, tasks, provider, nstate, tr, watching>>

DoStart ==
    \E n \in Nodes :
        /\ nstate[n] = "new"
        /\ \E keys \in Orders(ProviderKeys(n, <<>>)) :
            LET r == Start(Store(NoFail), n, keys)
            IN  /\ Commit(r.st)
                /\ nstate' = [nstate EXCEPT ![n] = IF r.err = ErrNil THEN "running" ELSE @]
                /\ tasks' = [tasks EXCEPT ![n] = IF r.err = ErrNil THEN BackgroundTasks ELSE @]
                /\ UNCHANGED <<keyPrefix, mem, inflight, rawKey, updating, cycles, provider, tr, watching>>

DoUpdate ==
    \E k \in Keys :
        LET r == ClientUpdate(Store(NoFail), k)
        IN  /\ Commit(r.st)
            /\ UNCHANGED <<keyPrefix, mem, inflight, rawKey, updating, cycles, tasks, provider, nstate, tr, watching>>

DoTransportForKey ==
    \E k \in Keys :
        LET r == TransportForKey(Store(NoFail), k)
        IN  /\ Commit(r.st)
            /\ tr' = IF r.err = ErrNil THEN r.t ELSE tr
            /\ UNCHANGED <<keyPrefix, mem, inflight, rawKey, updating, cycles, tasks, provider, nstate, watching>>

DoRoundTrip ==
    /\ tr # NoTransport
    /\ \E answer \in [SeqToSet(tr.nodes) -> Responses] :
        LET r == RoundTrip(Store(NoFail), tr, answer)
        IN  /\ Commit(r.st)
            /\ UNCHANGED <<keyPrefix, mem, inflight, rawKey, updating, cycles, tasks, provider, nstate, tr, watching>>

DoBalance ==
    \E n \in Nodes :
        /\ nstate[n] = "running"
        /\ \E order \in Orders(KeyMapKeys(Store(NoFail))), answer \in LivenessAnswers, x \in {0, 1} :
               LET r == balance(Store(NoFail), n, order, answer, x)
               IN  /\ Commit(r.st)
                   /\ nstate' = IF r.err = ErrPanic THEN [nstate EXCEPT ![n] = "crashed"]
                                 ELSE nstate
                   /\ cycles' = (cycles + 1) % 2
                   /\ UNCHANGED <<keyPrefix, mem, inflight, rawKey, updating, tasks, provider, tr, watching>>

\* The watcher of a running node gets its watch established.
DoWatch ==
    \E n \in Nodes :
        /\ nstate[n] = "running"
        /\ n \notin watching
        /\ watching' = watching \cup {n}
        /\ UNCHANGED <<keyPrefix, mem, inflight, rawKey, updating, cycles, tasks, leaves, dirs, ttl, vals, provider, nstate, tr, recv>>

\* An external agent writes the marker of ExternalKey into a node's index.
DoExternalSet ==
    \E n \in Nodes :
        LET r == EtcdSet(Store(NoFail), keysForNodeDir(n) \o <<Sep>> \o ExternalKey)
        IN  /\ Commit(r.st)
            /\ UNCHANGED <<keyPrefix, mem, inflight, rawKey, updating, cycles, tasks, provider, nstate, tr, watching>>

\* The receive loop of a watcher handles the next event of its queue.
DoDeliver ==
    \E n \in watching :
        /\ Len(recv[n]) > 0
        /\ HandleEvent(n, Head(recv[n])).err \in {ErrNil, ErrKeyNotExist}
        /\ recv' = [recv EXCEPT ![n] = Tail(@)]
        /\ watching' = IF HandleEvent(n, Head(recv[n])).returns THEN watching \ {n} ELSE watching
        /\ UNCHANGED <<keyPrefix, mem, inflight, rawKey, updating, cycles, tasks, leaves, dirs, ttl, vals, provider, nstate, tr>>

\* The process of a running node is suspended: none of its goroutines runs
\* any more, and Stop was not called.
DoSuspend ==
    \E n \in Nodes :
        /\ nstate[n] = "running"
        /\ nstate' = [nstate EXCEPT ![n] = "suspended"]
        /\ UNCHANGED <<keyPrefix, mem, inflight, rawKey, updating, cycles, tasks, leaves, dirs, ttl, vals, provider, tr, watching, recv>>

\* One second passes.
DoTick ==
    /\ DOMAIN ttl # {}
    /\ Commit(Tick(Store(NoFail)))
    /\ UNCHANGED <<keyPrefix, mem, inflight, rawKey, updating, cycles, tasks, provider, nstate, tr, watching>>

\* The ticker of the lease refresher fires, NodeMembershipTTL after the
\* refresh before it: when the lease is in its last second or just gone.
DoRefresh ==
    \E n \in Nodes :
        /\ nstate[n] = "running"
        /\ "refresher" \in tasks[n]
        /\ MemberDir(n) \in DOMAIN ttl => ttl[MemberDir(n)] <= 1
        /\ Commit(refreshClusterMembership(Store(NoFail), n).st)
        /\ UNCHANGED <<keyPrefix, mem, inflight, rawKey, updating, cycles, tasks, provider, nstate, tr, watching>>

\* Node.Stop: close(n.stopChan); return nil.
DoStop ==
    \E n \in Nodes :
        /\ nstate[n] = "running"
        /\ nstate' = [nstate EXCEPT ![n] = "stopped"]
        /\ UNCHANGED <<keyPrefix, mem, inflight, rawKey, updating, cycles, tasks, leaves, dirs, ttl, vals, provider, tr, watching, recv>>

\* A background goroutine of a stopped node takes the case <-n.stopChan of
\* its select and returns.
DoTaskExit ==
    \E n \in Nodes :
        /\ nstate[n] = "stopped"
        /\ \E task \in tasks[n] :
               /\ tasks' = [tasks EXCEPT ![n] = @ \ {task}]
               /\ watching' = IF task = "watcher" THEN watching \ {n} ELSE watching
        /\ UNCHANGED <<keyPrefix, mem, inflight, rawKey, updating, cycles, leaves, dirs, ttl, vals, provider, nstate, tr, recv>>

\* Registry.Add that stops between its two writes: the store fails the
\* second Set, or the caller dies after the first.
DoAddInterrupted ==
    \E k \in Keys, n \in Nodes :
        LET r == RegistryAdd(Store(1), k, n)
        IN  /\ Commit(r.st)
            /\ UNCHANGED <<keyPrefix, mem, inflight, rawKey, updating, cycles, tasks, provider, nstate, tr, watching>>

\* Registry.Remove that stops between its two deletes.
DoRemoveInterrupted ==
    \E k \in Keys, n \in Nodes :
        LET r == RegistryRemove(Store(1), k, n)
        IN  /\ Commit(r.st)
            /\ UNCHANGED <<keyPrefix, mem, inflight, rawKey, updating, cycles, tasks, provider, nstate, tr, watching>>

Next ==
    \/ DoAdd
    \/ DoRemove
    \/ DoStart
    \/ DoUpdate
    \/ DoTransportForKey
    \/ DoRoundTrip
    \/ DoBalance

Spec == Init /\ [][Next]_vars

(***************************************************************************)
(* The nodes with their watchers, under both root prefixes.                *)
(***************************************************************************)
InitWatch == InitWith({DefaultKeyPrefix, RootKeyPrefix}, {DisjointKeys})

NextWatch ==
    \/ DoStart
    \/ DoWatch
    \/ DoAdd
    \/ DoRemove
    \/ DoExternalSet
    \/ DoDeliver

SpecWatch == InitWatch /\ [][NextWatch]_vars

(***************************************************************************)
(* The nodes with their membership leases: time passes, running nodes      *)
(* refresh, a suspended node does not.                                     *)
(***************************************************************************)
InitLease == InitWith({DefaultKeyPrefix}, {DisjointKeys})

NextLease ==
    \/ DoStart
    \/ DoSuspend
    \/ DoTick
    \/ DoRefresh
    \/ DoAdd
    \/ DoRemove

SpecLease == InitLease /\ [][NextLease]_vars

(***************************************************************************)
(* The nodes with their background goroutines, started and stopped.        *)
(***************************************************************************)
NextStop ==
    \/ DoStart
    \/ DoWatch
    \/ DoStop
    \/ DoTaskExit
    \/ DoAdd
    \/ DoRemove

SpecStop == Init /\ [][NextStop]_vars

(***************************************************************************)
(* The registry healing itself: registrations come and go, registry calls  *)
(* may stop half-way, and the balancer of every running node keeps running *)
(* its cycles.                                                             *)
(***************************************************************************)
NextHeal ==
    \/ DoStart
    \/ DoRemove
    \/ DoAddInterrupted
    \/ DoRemoveInterrupted
    \/ DoBalance

\* A step of DoStart that leaves the node running, told by what it does to
\* nstate.  The first disjunct is a case of the second that names every
\* variable, so that ENABLED is evaluated without running Start.
StartStep ==
    \E n \in Nodes :
        /\ nstate[n] = "new"
        /\ \/ /\ nstate' = [nstate EXCEPT ![n] = "running"]
              /\ UNCHANGED <<keyPrefix, mem, inflight, rawKey, updating, cycles, tasks, leaves, dirs, ttl, vals, provider, tr, watching, recv>>
           \/ nstate'[n] = "running"

\* A node does not stay new forever: Start is called on it.
StartFair == WF_vars(StartStep)

\* A step of DoBalance, told by the cycle it counts: only DoBalance changes
\* cycles, and it does whenever a node is running.  The first disjunct is
\* a case of the second that names every variable, so that ENABLED is
\* evaluated without running balance.
CycleStep ==
    /\ \E n \in Nodes : nstate[n] = "running"
    /\ \/ /\ cycles' = (cycles + 1) % 2
          /\ UNCHANGED <<keyPrefix, mem, inflight, rawKey, updating, tasks, leaves, dirs, ttl, vals, provider, nstate, tr, watching, recv>>
       \/ cycles' # cycles

\* While a node is running, the ticker of balancePeriodically keeps firing
\* and balancer cycles keep happening, whatever they find and do.
CycleFair == WF_vars(CycleStep)

SpecHeal == InitLease /\ [][NextHeal]_vars /\ StartFair /\ CycleFair

(***************************************************************************)
(* The cluster healing itself: nodes are suspended and their leases run    *)
(* out, keys lose their nodes, and the balancers keep running.             *)
(***************************************************************************)
NextLive ==
    \/ DoStart
    \/ DoRemove
    \/ DoBalance
    \/ DoSuspend
    \/ DoTick
    \/ DoRefresh

SpecLive == InitLease /\ [][NextLive]_vars /\ CycleFair

(***************************************************************************)
(* Provider.Update seen as a call that takes time: the goroutine that      *)
(* makes it is inside the call from one step to a later one.               *)
(***************************************************************************)
\* The watcher of n takes the next event of its queue, which is not a
\* delete, and calls n.Provider.Update(key).
DoWatcherUpdateCall ==
    \E n \in watching :
        /\ nstate[n] = "running"
        /\ "watcher" \in tasks[n] \ updating[n]
        /\ Len(recv[n]) > 0
        /\ HandleEvent(n, Head(recv[n])).called
        /\ updating' = [updating EXCEPT ![n] = @ \cup {"watcher"}]
        /\ UNCHANGED <<keyPrefix, mem, inflight, rawKey, leaves, dirs, ttl, vals, provider, nstate, tr, watching, recv, tasks, cycles>>

\* A balancer cycle of n with x = 0 that finds a key registered to n: the
\* cycle does its registry work and is inside n.Provider.Update(key).
DoBalancerUpdateCall ==
    \E n \in Nodes :
        /\ nstate[n] = "running"
        /\ "balancer" \in tasks[n] \ updating[n]
        /\ \E order \in Orders(KeyMapKeys(Store(NoFail))), answer \in LivenessAnswers :
               LET r == balance(Store(NoFail), n, order, answer, 0)
               IN  /\ r.updates # {}
                   /\ Commit(r.st)
                   /\ updating' = [updating EXCEPT ![n] = @ \cup {"balancer"}]
                   /\ cycles' = (cycles + 1) % 2
                   /\ UNCHANGED <<keyPrefix, mem, inflight, rawKey, tasks, provider, nstate, tr, watching>>

\* Provider.Update returns to the goroutine that called it; the watcher is
\* then done with the event.
DoUpdateReturn ==
    \E n \in Nodes :
        \E g \in updating[n] :
            /\ updating' = [updating EXCEPT ![n] = @ \ {g}]
            /\ recv' = IF g = "watcher" THEN [recv EXCEPT ![n] = Tail(@)] ELSE recv
            /\ UNCHANGED <<keyPrefix, mem, inflight, rawKey, leaves, dirs, ttl, vals, provider, nstate, tr, watching, tasks, cycles>>

NextUpdate ==
    \/ DoStart
    \/ DoWatch
    \/ DoAdd
    \/ DoWatcherUpdateCall
    \/ DoBalancerUpdateCall
    \/ DoUpdateReturn

SpecUpdate == InitWatch /\ [][NextUpdate]_vars

(***************************************************************************)
(* The naming utilities on their own: a caller hands any string to slash   *)
(* or to unslash and goes on with the result.                              *)
(***************************************************************************)
PathTokens == {Sep, "a", "b"}

PathStrings == UNION {[1..len -> PathTokens] : len \in 0..MaxPathLen}

InitNorm ==
    /\ keyPrefix = NewEtcdBackend(DefaultKeyPrefix)
    /\ rawKey \in PathStrings
    /\ updating = [n \in Nodes |-> {}]
    /\ leaves = {}
    /\ dirs = {}
    /\ ttl = <<>>
    /\ vals = <<>>
    /\ mem = <<>>
    /\ inflight = {}
    /\ provider = DisjointKeys
    /\ nstate = [n \in Nodes |-> "new"]
    /\ tr = NoTransport
    /\ watching = {}
    /\ recv = [n \in Nodes |-> <<>>]
    /\ tasks = [n \in Nodes |-> {}]
    /\ cycles = 0

DoSlash ==
    /\ rawKey' = slash(rawKey)
    /\ UNCHANGED <<keyPrefix, mem, inflight, updating, leaves, dirs, ttl, vals, provider, nstate, tr, watching, recv, tasks, cycles>>

DoUnslash ==
    /\ rawKey' = unslash(rawKey)
    /\ UNCHANGED <<keyPrefix, mem, inflight, updating, leaves, dirs, ttl, vals, provider, nstate, tr, watching, recv, tasks, cycles>>

NextNorm ==
    \/ DoSlash
    \/ DoUnslash

SpecNorm == InitNorm /\ [][NextNorm]_vars

(***************************************************************************)
(* Calls that run concurrently.  A call that reads the registry and then   *)
(* writes, or that writes twice, is two steps here; between them it is an  *)
(* element of inflight, [op, key, nodes]: what it does and what it read.   *)
(***************************************************************************)
\* The calls that can be between their steps at the same time.
MaxInflight == 2

\* Client.update (who is no node) or the balancer cycle of node who meets
\* key k with no registered node, reads the cluster and chooses regNode.
DoHealChoose ==
    \E k \in Keys, who \in {<<>>} \cup Nodes :
        LET st == Store(NoFail)
            nodes == NodesForKey(st, k).keys
            cn == NodesInCluster(st).keys
            regNode == cn[keyBucket(k, Len(cn)) + 1]
        IN  /\ Cardinality(inflight) < MaxInflight
            /\ who \in Nodes => nstate[who] = "running" /\ k \in KeyMapKeys(st)
            /\ Len(nodes) = 0
            /\ Len(cn) > 0
            /\ inflight' = inflight \cup {[op |-> "heal", key |-> k, nodes |-> <<regNode>>]}
            /\ UNCHANGED <<keyPrefix, rawKey, updating, leaves, dirs, ttl, vals, mem, provider, nstate, tr, watching, recv, tasks, cycles>>

\* The Registry.Add of the node chosen.
DoHealWrite ==
    \E c \in inflight :
        /\ c.op = "heal"
        /\ Commit(RegistryAdd(Store(NoFail), c.key, c.nodes[1]).st)
        /\ inflight' = inflight \ {c}
        /\ UNCHANGED <<keyPrefix, rawKey, updating, mem, provider, nstate, tr, watching, tasks, cycles>>

\* Registry.Add(k, n) makes its first write, to the data index.
DoAddFirst ==
    \E k \in Keys, n \in Nodes :
        LET c == [op |-> "add", key |-> k, nodes |-> <<n>>]
            r == EtcdSet(Store(NoFail), nodesForKeyDir(k) \o <<Sep>> \o n)
        IN  /\ Cardinality(inflight) < MaxInflight
            /\ c \notin inflight
            /\ Commit(r.st)
            /\ inflight' = inflight \cup {c}
            /\ UNCHANGED <<keyPrefix, rawKey, updating, mem, provider, nstate, tr, watching, tasks, cycles>>

\* Registry.Remove(k, n) makes its first delete, from the data index; it
\* has returned when that delete failed.
DoRemoveFirst ==
    \E k \in Keys, n \in Nodes :
        LET c == [op |-> "remove", key |-> k, nodes |-> <<n>>]
            r == EtcdDelete(Store(NoFail), nodesForKeyDir(k) \o <<Sep>> \o n)
        IN  /\ Cardinality(inflight) < MaxInflight
            /\ c \notin inflight
            /\ Commit(r.st)
            /\ inflight' = IF r.err = ErrNil THEN inflight \cup {c} ELSE inflight
            /\ UNCHANGED <<keyPrefix, rawKey, updating, mem, provider, nstate, tr, watching, tasks, cycles>>

\* The second write of a Registry.Add or Registry.Remove, to the node
\* index; the call returns, with the error of the write if it failed.
DoSecondWrite ==
    \E c \in inflight :
        LET marker == keysForNodeDir(c.nodes[1]) \o <<Sep>> \o c.key
            r == IF c.op = "add" THEN EtcdSet(Store(NoFail), marker)
                 ELSE EtcdDelete(Store(NoFail), marker)
        IN  /\ c.op \in {"add", "remove"}
            /\ Commit(r.st)
            /\ inflight' = inflight \ {c}
            /\ UNCHANGED <<keyPrefix, rawKey, updating, mem, provider, nstate, tr, watching, tasks, cycles>>

NextRace ==
    \/ DoStart
    \/ DoRemove
    \/ DoHealChoose
    \/ DoHealWrite
    \/ DoAddFirst
    \/ DoRemoveFirst
    \/ DoSecondWrite

SpecRace == Init /\ [][NextRace]_vars

(***************************************************************************)
(* Stop, called at any time and any number of times, and the goroutines of *)
(* a stopped node that have not yet taken the case <-n.stopChan.           *)
(***************************************************************************)
\* Node.Stop on a node in state s: close(n.stopChan) panics when the
\* channel, made by NewNode, is closed already.
Stop(s) ==
    IF s = "stopped" THEN [state |-> "crashed", err |-> ErrPanic]
    ELSE [state |-> "stopped", err |-> ErrNil]

\* Stop is called on a node that was never started, or was stopped before.
DoStopAgain ==
    \E n \in Nodes :
        /\ nstate[n] \in {"new", "stopped"}
        /\ nstate' = [nstate EXCEPT ![n] = Stop(@).state]
        /\ tasks' = IF Stop(nstate[n]).err = ErrPanic THEN [tasks EXCEPT ![n] = {}] ELSE tasks
        /\ watching' = IF Stop(nstate[n]).err = ErrPanic THEN watching \ {n} ELSE watching
        /\ UNCHANGED <<keyPrefix, mem, inflight, rawKey, updating, cycles, leaves, dirs, ttl, vals, provider, tr, recv>>

\* The refresher of a stopped node: its select finds the ticker ready as
\* well as the closed stopChan and takes the ticker, or the refresh was
\* under way when Stop was called.  The refresher of a node whose Start
\* failed: nothing has closed stopChan.
DoLateRefresh ==
    \E n \in Nodes :
        /\ nstate[n] \in {"stopped", "failed"}
        /\ "refresher" \in tasks[n]
        /\ Commit(refreshClusterMembership(Store(NoFail), n).st)
        /\ UNCHANGED <<keyPrefix, mem, inflight, rawKey, updating, cycles, tasks, provider, nstate, tr, watching>>

\* The balancer of a stopped node, in the same way: one more cycle.
DoLateBalance ==
    \E n \in Nodes :
        /\ nstate[n] = "stopped"
        /\ "balancer" \in tasks[n]
        /\ \E order \in Orders(KeyMapKeys(Store(NoFail))), answer \in LivenessAnswers, x \in {0, 1} :
               LET r == balance(Store(NoFail), n, order, answer, x)
               IN  /\ Commit(r.st)
                   /\ nstate' = IF r.err = ErrPanic THEN [nstate EXCEPT ![n] = "crashed"]
                                 ELSE nstate
                   /\ cycles' = (cycles + 1) % 2
                   /\ UNCHANGED <<keyPrefix, mem, inflight, rawKey, updating, tasks, provider, tr, watching>>

\* The store after the given number of seconds.
RECURSIVE Elapse(_, _)
Elapse(st, seconds) == IF seconds = 0 THEN st ELSE Elapse(Tick(st), seconds - 1)

\* A whole lease period passes with no refresh in it.
DoElapse ==
    /\ DOMAIN ttl # {}
    /\ Commit(Elapse(Store(NoFail), NodeMembershipTTL))
    /\ UNCHANGED <<keyPrefix, mem, inflight, rawKey, updating, cycles, tasks, provider, nstate, tr, watching>>

\* Node.Start returns an error: the store answers only the first calls of
\* joinCluster and registerExistingKeys.  The refresher is running when
\* joinCluster has returned nil.
DoStartFailed ==
    \E n \in Nodes, calls \in 0..2 :
        /\ nstate[n] = "new"
        /\ \E keys \in Orders(ProviderKeys(n, <<>>)) :
            LET r == Start(Store(calls), n, keys)
            IN  /\ r.err # ErrNil
                /\ Commit(r.st)
                /\ nstate' = [nstate EXCEPT ![n] = "failed"]
                /\ tasks' = [tasks EXCEPT ![n] = IF joinCluster(Store(calls), n).err = ErrNil
                                                  THEN {"refresher"} ELSE {}]
                /\ UNCHANGED <<keyPrefix, mem, inflight, rawKey, updating, cycles, provider, tr, watching>>

NextHalt ==
    \/ DoStart
    \/ DoStop
    \/ DoStopAgain
    \/ DoTaskExit
    \/ DoElapse
    \/ DoLateRefresh
    \/ DoLateBalance

SpecHalt == InitLease /\ [][NextHalt]_vars

NextBoot ==
    \/ DoStart
    \/ DoStartFailed
    \/ DoElapse
    \/ DoLateRefresh
    \/ DoAdd

SpecBoot == InitLease /\ [][NextBoot]_vars

(***************************************************************************)
(* The two Backend implementations, InMemoryBackend (the map mem) and      *)
(* EtcdBackend (the store), given the same Set calls on paths dir/key.     *)
(***************************************************************************)
\* A lookup that takes the caller's key as it is.
InMemoryGetRaw(m, key) ==
    IF key \in DOMAIN m THEN [value |-> m[key], err |-> ErrNil]
    ELSE [value |-> <<>>, err |-> ErrKeyNotExist]

InMemoryGet(m, key) ==
    LET k == IF ~HasPrefix(key, <<Sep>>) THEN <<Sep>> \o key ELSE key
    IN  IF k \in DOMAIN m THEN [value |-> m[k], err |-> ErrNil]
        ELSE [value |-> <<>>, err |-> ErrKeyNotExist]

\* The subkeys as a set: the order of the slice is that of the map iteration.
InMemoryList(m, key) ==
    LET k == IF ~HasSuffix(slash(key), <<Sep>>) THEN slash(key) \o <<Sep>> ELSE slash(key)
    IN  {TrimPrefix(e, k) : e \in {x \in DOMAIN m : HasPrefix(x, k)}}

InMemorySet(m, key, value) ==
    [q \in DOMAIN m \cup {slash(key)} |-> IF q = slash(key) THEN value ELSE m[q]]

\* Set(dir/key, value), with or without a leading slash, on both backends.
DoBackendSet ==
    \E dir \in {<<"q">>, <<"a">>}, key \in {<<"a">>, <<"b">>},
       lead \in {<<>>, <<Sep>>}, value \in {<<>>, <<"v">>, <<"w">>} :
        /\ mem' = InMemorySet(mem, lead \o dir \o <<Sep>> \o key, value)
        /\ Commit(EtcdSetValue(Store(NoFail), lead \o dir \o <<Sep>> \o key, value).st)
        /\ UNCHANGED <<keyPrefix, inflight, rawKey, updating, cycles, tasks, provider, nstate, tr, watching>>

NextBackend == DoBackendSet

SpecBackend == InitWatch /\ [][NextBackend]_vars

(***************************************************************************)
(* Properties.                                                             *)
(***************************************************************************)
Registered(k, n) == DataMarker(k, n) \in leaves /\ KeyMarker(n, k) \in leaves

\* The pair was registered once and is not any more.
Deregistered(k, n) ==
    /\ DataMarker(k, n) \notin leaves
    /\ KeyMarker(n, k) \notin leaves
    /\ fullKey(nodesForKeyDir(k)) \in dirs
    /\ fullKey(keysForNodeDir(n)) \in dirs

C2_AddListsKeyAsAdded ==
    \A k \in Keys, n \in Nodes :
        LET r == RegistryAdd(Store(NoFail), k, n)
        IN  r.err = ErrNil =>
                /\ k \in SeqToSet(KeysForNode(r.st, n).keys)
                /\ n \in SeqToSet(NodesForKey(r.st, k).keys)

CandidateAnswers(t) == [SeqToSet(t.nodes) -> Responses]

IsTry(e) == e.do = "try"

\* C4: for the client's keyed transport, if at least one candidate answers
\* the request with a status in [200, 399], RoundTrip returns the response
\* of a candidate that answered so, and no error, whatever the other
\* candidates answer.
C4_SuccessIsReturned ==
    tr # NoTransport =>
        \A answer \in CandidateAnswers(tr) :
            (\E n \in SeqToSet(tr.nodes) : Succeeds(answer[n])) =>
                LET r == RoundTrip(Store(NoFail), tr, answer)
                IN  /\ r.err = NoError
                    /\ r.resp.node \in SeqToSet(tr.nodes)
                    /\ Succeeds(answer[r.resp.node])
                    /\ r.resp.status = answer[r.resp.node].status

\* C5: for the client's keyed transport, if no candidate answers with a
\* status in [200, 399], then when RoundTrip returns NodesForKey(key) lists
\* none of the candidates.
C5_AllFailedAllRemoved ==
    tr # NoTransport =>
        \A answer \in CandidateAnswers(tr) :
            (\A n \in SeqToSet(tr.nodes) : ~Succeeds(answer[n])) =>
                LET r == RoundTrip(Store(NoFail), tr, answer)
                IN  SeqToSet(NodesForKey(r.st, tr.key).keys) \cap SeqToSet(tr.nodes) = {}

\* C6: a transport built by TransportForKey holds the nodes in the order of
\* NodesForKey; RoundTrip attempts them in that order, and every attempt
\* after the first directly follows the completed Remove(key, node) of the
\* candidate attempted before it; when the first of two registered nodes
\* answers 500 and the second succeeds, RoundTrip returns the second node's
\* response and NodesForKey(key) is then exactly the second node.
C6_FailoverOrder ==
    \A k \in Keys :
        LET t == TransportForKey(Store(NoFail), k)
            nodes == t.t.nodes
        IN  t.err = ErrNil =>
                /\ nodes = NodesForKey(Store(NoFail), k).keys
                /\ \A answer \in CandidateAnswers(t.t) :
                       LET r == RoundTrip(t.st, t.t, answer)
                           tries == SelectSeq(r.log, IsTry)
                       IN  /\ Len(tries) >= 1
                           /\ Len(tries) <= Len(nodes)
                           /\ \A i \in 1..Len(tries) : tries[i].node = nodes[i]
                           /\ \A i \in 2..Len(r.log) :
                                  IsTry(r.log[i]) =>
                                      /\ r.log[i - 1].do = "remove"
                                      /\ r.log[i - 1].err = ErrNil
                                      /\ r.log[i - 2].do = "try"
                                      /\ r.log[i - 1].node = r.log[i - 2].node
                           /\ (Len(nodes) = 2 /\ answer[nodes[1]] = Http(500)
                                 /\ Succeeds(answer[nodes[2]])) =>
                                  /\ r.err = NoError
                                  /\ r.resp = [node |-> nodes[2], status |-> answer[nodes[2]].status]
                                  /\ NodesForKey(r.st, k).keys = <<nodes[2]>>

\* C6 happens: nodes A and B are both registered for a key, in this order,
\* and the request that A answers with 500 and B with 200 returns B's
\* response.
C6_Witness ==
    \E k \in Keys :
        /\ NodesForKey(Store(NoFail), k).keys = <<<<"A">>, <<"B">>>>
        /\ RoundTrip(Store(NoFail), TransportForKey(Store(NoFail), k).t,
                     [n \in Nodes |-> IF n = <<"A">> THEN Http(500) ELSE Http(StatusOK)]).resp
               = [node |-> <<"B">>, status |-> StatusOK]

\* C7: for a key with no registrations Client.NodesForKey returns the empty
\* sequence and no error, and Client.TransportForKey fails with
\* ErrNoNodesForKey and builds no transport, also when a provider holds
\* the key.
C7_UnregisteredUnroutable ==
    \A k \in Keys :
        (\A n \in Nodes : DataMarker(k, n) \notin leaves) =>
            /\ ClientNodesForKey(Store(NoFail), k).err = ErrNil
            /\ ClientNodesForKey(Store(NoFail), k).keys = <<>>
            /\ TransportForKey(Store(NoFail), k).err = ErrNoNodesForKey
            /\ TransportForKey(Store(NoFail), k).t = NoTransport

\* C7 happens: a provider holds a key that is registered to no node, once
\* because its node has not started and once because the key was
\* deregistered after its node had started.
C7_Witness ==
    /\ \E k \in Keys, n \in Nodes :
           /\ k \in provider[n]
           /\ nstate[n] = "running"
           /\ Deregistered(k, n)
           /\ \A m \in Nodes : DataMarker(k, m) \notin leaves
    /\ \E k \in Keys, n \in Nodes :
           /\ k \in provider[n]
           /\ nstate[n] = "new"
           /\ \A m \in Nodes : DataMarker(k, m) \notin leaves

\* C8: after Node.Start of a new node returns without error, NodesInCluster
\* lists the node, every key that Provider.Keys("") returned has the node
\* in NodesForKey and is in KeysForNode(node), and every registration that
\* exists after Start either existed before it or is of this node with a key
\* its provider holds; so when every registration before Start was of a key
\* to a node that holds it, every one after Start is.
C8_StartRegistersOwnKeys ==
    \A n \in Nodes :
        nstate[n] = "new" =>
            \A keys \in Orders(ProviderKeys(n, <<>>)) :
                LET r == Start(Store(NoFail), n, keys)
                    held(k, m) == slash(k) \in provider[m]
                IN  r.err = ErrNil =>
                        /\ n \in SeqToSet(NodesInCluster(r.st).keys)
                        /\ \A k \in ProviderKeys(n, <<>>) :
                               /\ n \in SeqToSet(NodesForKey(r.st, k).keys)
                               /\ k \in SeqToSet(KeysForNode(r.st, n).keys)
                        /\ \A k \in Keys, m \in Nodes :
                               m \in SeqToSet(NodesForKey(r.st, k).keys) =>
                                   \/ m \in SeqToSet(NodesForKey(Store(NoFail), k).keys)
                                   \/ m = n /\ held(k, n)
                        /\ (\A k \in Keys, m \in Nodes : Registered(k, m) => held(k, m)) =>
                               \A k \in Keys :
                                   \A m \in SeqToSet(NodesForKey(r.st, k).keys) : held(k, m)

\* C8 happens: two nodes that hold disjoint keys have both started, and
\* each key is registered to the node that holds it and to no other.
C8_Witness ==
    /\ provider = DisjointKeys
    /\ \A n \in Nodes : nstate[n] = "running"
    /\ NodesInCluster(Store(NoFail)).keys = <<<<"A">>, <<"B">>>>
    /\ \A k \in Keys, n \in Nodes : Registered(k, n) <=> k \in provider[n]
    /\ \A k \in Keys :
           NodesForKey(Store(NoFail), k).keys = SortStrings({n \in Nodes : k \in provider[n]})

\* C9: when the cluster members are A and B and key k is in the data index
\* with no registered node, then after one balancer cycle of a running node
\* NodesForKey(k) is exactly the one node clusterNodes[keyBucket(k, 2)],
\* in whatever order the cycle visits the keys and whatever the liveness
\* requests for the other keys return.
C9_OrphanKeyHealed ==
    LET km == KeyMap(Store(NoFail)).map
        clusterNodes == NodesInCluster(Store(NoFail)).keys
    IN  SeqToSet(clusterNodes) = Nodes =>
            \A k \in DOMAIN km :
                Len(km[k]) = 0 =>
                    \A n \in {m \in Nodes : nstate[m] = "running"}, order \in Orders(DOMAIN km),
                       answer \in LivenessAnswers, x \in {0, 1} :
                        LET r == balance(Store(NoFail), n, order, answer, x)
                        IN  /\ r.err = ErrNil
                            /\ NodesForKey(r.st, k).keys
                                   = <<clusterNodes[keyBucket(k, Len(clusterNodes)) + 1]>>

\* C9 happens: A and B are the cluster members, a key of the data index has
\* no registered node, and the cycle of a running node registers it.
C9_Witness ==
    /\ NodesInCluster(Store(NoFail)).keys = <<<<"A">>, <<"B">>>>
    /\ \E k \in DOMAIN KeyMap(Store(NoFail)).map, n \in Nodes :
           /\ KeyMap(Store(NoFail)).map[k] = <<>>
           /\ nstate[n] = "running"
           /\ \E order \in Orders(DOMAIN KeyMap(Store(NoFail)).map), answer \in LivenessAnswers :
                  <<k, NodesInCluster(Store(NoFail)).keys[keyBucket(k, 2) + 1]>>
                      \in balance(Store(NoFail), n, order, answer, 1).healed

\* C10: while node N runs with its watch established, every change under
\* nodes/N/__keys/ that is not a delete (a marker written by Registry.Add or
\* by an external agent) reaches N's watcher; the watcher answers every
\* non-delete event it receives with a Provider.Update call for the key
\* whose marker changed ("/q" for nodes/N/__keys/q), and answers a delete
\* event with no Provider.Update call.
C10_WatchDrivenUpdate ==
    /\ \A n \in watching, k \in Keys \cup {ExternalKey} :
           LET r == EtcdSet(Store(NoFail), keysForNodeDir(n) \o <<Sep>> \o k)
           IN  r.err = ErrNil =>
                   Route(watching, recv, r.st.ev)[n]
                       = Append(recv[n], [action |-> "set", key |-> KeyMarker(n, k)])
    /\ \A n \in watching :
           \A i \in 1..Len(recv[n]) :
               LET e == recv[n][i]
                   h == HandleEvent(n, e)
               IN  IF IsDelete(e.action) THEN ~h.called
                   ELSE h.called /\ h.key = MarkerKey(n, e.key)

\* C11: when a suspended node's lease is in its last second, then after that
\* second NodesInCluster does not list the node, and every marker of the
\* node that existed (data/k/__nodes/n and nodes/n/__keys/k) still exists.
C11_ExpiryKeepsRegistrations ==
    \A n \in Nodes :
        (/\ nstate[n] = "suspended"
         /\ MemberDir(n) \in DOMAIN ttl
         /\ ttl[MemberDir(n)] = 1) =>
            LET st == Tick(Store(NoFail))
            IN  /\ n \notin SeqToSet(NodesInCluster(st).keys)
                /\ \A k \in Keys :
                       /\ DataMarker(k, n) \in leaves => DataMarker(k, n) \in st.leaves
                       /\ KeyMarker(n, k) \in leaves => KeyMarker(n, k) \in st.leaves

\* C12: when Node.Stop has returned, the lease refresher, the key watcher
\* and the balancer of the node have all returned.
C12_StopWaitsForTasks ==
    \A n \in Nodes : nstate[n] = "stopped" => tasks[n] = {}

\* Client.Update(k) for a key without registered nodes: the one node
\* clusterNodes[keyBucket(k, |clusterNodes|)] is registered and returned.
UpdateRegistersOne(k) ==
    LET cn == NodesInCluster(Store(NoFail)).keys
        r == ClientUpdate(Store(NoFail), k)
    IN  /\ Len(cn) > 0
        /\ r.err = ErrNil
        /\ r.nodes = <<cn[keyBucket(k, Len(cn)) + 1]>>
        /\ NodesForKey(r.st, k).keys = r.nodes

\* Client.Update(k) for a key with registered nodes: the same nodes stay
\* registered and are returned.
UpdateKeepsNodes(k) ==
    LET before == NodesForKey(Store(NoFail), k).keys
        r == ClientUpdate(Store(NoFail), k)
    IN  /\ r.err = ErrNil
        /\ r.nodes = before
        /\ NodesForKey(r.st, k).keys = before

\* Client.Update(k) for a key with registered nodes: the re-Add of each
\* node n reaches the watcher of n as a change of nodes/n/__keys/k.
UpdateTouchesWatchers(k) ==
    LET before == NodesForKey(Store(NoFail), k).keys
        r == ClientUpdate(Store(NoFail), k)
    IN  \A n \in SeqToSet(before) :
            \E i \in 1..Len(Route({n}, [m \in Nodes |-> <<>>], r.st.ev)[n]) :
                LET e == Route({n}, [m \in Nodes |-> <<>>], r.st.ev)[n][i]
                IN  ~IsDelete(e.action) /\ e.key = KeyMarker(n, k)

\* C13: Client.Update(k) registers exactly clusterNodes[keyBucket(k,
\* |clusterNodes|)] and returns it when k has no registered nodes; otherwise
\* it re-adds every registered node, which reaches that node's watcher as a
\* change of its marker, leaves the registrations of k as they were and
\* returns exactly those nodes.
C13_UpdateRegistersOrTouches ==
    \A k \in Keys :
        IF NodesForKey(Store(NoFail), k).keys = <<>>
        THEN UpdateRegistersOne(k)
        ELSE UpdateKeepsNodes(k) /\ UpdateTouchesWatchers(k)

\* The store st before its next call: same entries, no events yet.
Quiet(st) == [st EXCEPT !.ev = <<>>]

\* C14: from every reachable state, Add(k, n) followed by Add(k, n) succeeds
\* both times, the second Add leaves the entries, the TTLs and both lookups
\* as the first left them, and the second Add produces a set event on
\* nodes/n/__keys/k, inside the subtree of n's node index.
C14_AddIdempotent ==
    \A k \in Keys, n \in Nodes :
        LET r1 == RegistryAdd(Store(NoFail), k, n)
            r2 == RegistryAdd(Quiet(r1.st), k, n)
        IN  /\ r1.err = ErrNil
            /\ r2.err = ErrNil
            /\ r2.st.leaves = r1.st.leaves
            /\ r2.st.dirs = r1.st.dirs
            /\ r2.st.ttl = r1.st.ttl
            /\ NodesForKey(r2.st, k).keys = NodesForKey(r1.st, k).keys
            /\ KeysForNode(r2.st, n).keys = KeysForNode(r1.st, n).keys
            /\ \E i \in 1..Len(r2.st.ev) :
                   /\ r2.st.ev[i] = [action |-> "set", key |-> KeyMarker(n, k)]
                   /\ Watches(fullKey(keysForNodeDir(n)), r2.st.ev[i].key)

\* C14 happens: a pair is registered next to another node of the same key,
\* and adding the pair again succeeds and changes no entry.
C14_Witness ==
    \E k \in Keys, n \in Nodes :
        /\ Registered(k, n)
        /\ \E m \in Nodes \ {n} : Registered(k, m)
        /\ RegistryAdd(Store(NoFail), k, n).err = ErrNil
        /\ RegistryAdd(Store(NoFail), k, n).st.leaves = leaves
        /\ Len(RegistryAdd(Store(NoFail), k, n).st.ev) = 2

\* C15: from every reachable state, Registry.Remove(k, n) returns without
\* error whether or not the markers of the pair exist, and afterwards
\* neither marker exists.
C15_RemoveMissingNotFatal ==
    \A k \in Keys, n \in Nodes :
        LET r == RegistryRemove(Store(NoFail), k, n)
        IN  /\ r.err = ErrNil
            /\ DataMarker(k, n) \notin r.st.leaves
            /\ KeyMarker(n, k) \notin r.st.leaves

\* C16: every candidate that a RoundTrip of the client's keyed transport
\* attempts is registered for the key when that RoundTrip starts: a node
\* deregistered before the call (by an earlier RoundTrip on the transport
\* or by anyone else) is not attempted.
C16_NoAttemptOnRemoved ==
    tr # NoTransport =>
        \A answer \in CandidateAnswers(tr) :
            LET r == RoundTrip(Store(NoFail), tr, answer)
                now == SeqToSet(NodesForKey(Store(NoFail), tr.key).keys)
            IN  \A i \in 1..Len(r.log) : IsTry(r.log[i]) => r.log[i].node \in now

\* C17: a transport is built for k and, while its RoundTrip is busy with
\* the first candidate, another agent deregisters one candidate (victim)
\* of k; if every body can be read and a candidate other than the victim
\* answers with a status in [200, 399], RoundTrip goes on to it and returns
\* a successful response without error.
C17_ConcurrentRemoveTolerated ==
    \A k \in Keys :
        LET t == TransportForKey(Store(NoFail), k)
        IN  t.err = ErrNil =>
                \A victim \in SeqToSet(t.t.nodes), answer \in CandidateAnswers(t.t) :
                    LET other == RegistryRemove(Quiet(t.st), k, victim)
                        r == RoundTrip(other.st, t.t, answer)
                    IN  (/\ other.err = ErrNil
                         /\ \A n \in SeqToSet(t.t.nodes) : answer[n].kind = "http" => answer[n].body
                         /\ \E n \in SeqToSet(t.t.nodes) \ {victim} : Succeeds(answer[n])) =>
                            /\ r.err = NoError
                            /\ Succeeds(answer[r.resp.node])

\* The error of a failed attempt on node that answered a: an HTTPError with
\* the status, the transport error, or the error of reading the body.
CandidateError(node, a) ==
    IF a.kind = "http" /\ ~a.body THEN [kind |-> "read", node |-> node, status |-> a.status]
    ELSE AttemptError(node, a)

\* C18: when no candidate of the client's keyed transport answers with a
\* status in [200, 399], RoundTrip returns no response, and its error is
\* the error of the last candidate it attempted.
C18_LastErrorReturned ==
    tr # NoTransport =>
        \A answer \in CandidateAnswers(tr) :
            (\A n \in SeqToSet(tr.nodes) : ~Succeeds(answer[n])) =>
                LET r == RoundTrip(Store(NoFail), tr, answer)
                    tries == SelectSeq(r.log, IsTry)
                    last == tries[Len(tries)].node
                IN  /\ r.resp = NoResponse
                    /\ r.err = CandidateError(last, answer[last])

\* Exactly one of the two markers of the pair (k, n) exists.
OneMarker(k, n) == (DataMarker(k, n) \in leaves) # (KeyMarker(n, k) \in leaves)

\* C19: whenever exactly one of the two markers of a pair (k, n) exists,
\* a later state has both of them or neither, with every node that can
\* start starting and balancer cycles going on.
C19_IndexesEventuallyAgree ==
    \A k \in Keys, n \in Nodes : OneMarker(k, n) ~> ~OneMarker(k, n)

\* A key of the registry that has lost all of its registered nodes: its
\* __nodes directory is in the data index and holds no marker.
Orphan(k) ==
    /\ k \in KeyMapKeys(Store(NoFail))
    /\ NodesForKey(Store(NoFail), k).keys = <<>>

\* A node whose process runs and whose membership lease is in the store.
LiveMember == \E n \in Nodes : nstate[n] = "running" /\ MemberDir(n) \in dirs

\* Key k is registered to a node that NodesInCluster lists.
Healed(k) ==
    \E n \in SeqToSet(NodesInCluster(Store(NoFail)).keys) :
        n \in SeqToSet(NodesForKey(Store(NoFail), k).keys)

\* C20: Under fair scheduling of balancer cycles, a key of the registry
\* that has lost all of its registered nodes is eventually registered to a
\* node that is a current cluster member, unless the cluster is left
\* without a live member on the way.
C20_OrphansEventuallyHealed ==
    \A k \in Keys : Orphan(k) ~> (Healed(k) \/ ~LiveMember)

\* A key is registered to a cluster member that never held it in its
\* provider: only the balancer's branch for unregistered keys does that.
C20_Witness ==
    \E k \in Keys, n \in Nodes :
        /\ Registered(k, n)
        /\ k \notin provider[n]
        /\ nstate[n] = "running"
        /\ MemberDir(n) \in dirs
        /\ Healed(k)

\* The nodes whose membership directory is in the store.
Members == {n \in Nodes : MemberDir(n) \in dirs}

\* C21: Client.NodesInCluster returns, without error, exactly the nodes whose
\* nodes/<node> directory exists, each once and under its own name; a member
\* without registered keys is listed, and nothing below nodes/<node>/__keys
\* shows up as an element.
C21_NodesInClusterExact ==
    LET r == NodesInCluster(Store(NoFail))
    IN  /\ r.err = ErrNil
        /\ \A i, j \in DOMAIN r.keys : r.keys[i] = r.keys[j] => i = j
        /\ SeqToSet(r.keys) = Members

\* Both nodes are listed while one of them has no registered key and the
\* other has one.
C21_Witness ==
    /\ NodesInCluster(Store(NoFail)).keys = <<<<"A">>, <<"B">>>>
    /\ \E n \in Nodes : \A e \in leaves : ~Under(MemberDir(n), e)
    /\ \E n \in Nodes, k \in Keys : KeyMarker(n, k) \in leaves

\* The paths the listings and Get are tried on: the roots of the two
\* indexes, the directories and markers of every key and node, and a path
\* outside the registry, written without a leading slash.
ProbePaths ==
    {nodesPrefix, dataPrefix, <<"q", Sep, "a">>}
        \cup {keysForNodeDir(n) : n \in Nodes}
        \cup {keyPathJoin(<<nodesPrefix, n>>) : n \in Nodes}
        \cup {nodesForKeyDir(k) : k \in Keys}
        \cup {keysForNodeDir(n) \o <<Sep>> \o k : n \in Nodes, k \in Keys}

\* C22: listing a path that does not exist (Backend.List and ListKeys,
\* recursive or not, and so Registry.KeysForNode, Registry.NodesForKey and
\* Client.NodesInCluster) returns an empty sequence and no error; Backend.Get
\* of such a path returns ErrKeyNotExist with an empty value, and Get of a
\* path that exists returns no error.
C22_MissingPathListsEmpty ==
    /\ \A p \in ProbePaths :
           IF ~Exists(Store(NoFail), fullKey(p))
           THEN /\ \A recursive \in BOOLEAN :
                       /\ EtcdList(Store(NoFail), p, recursive).err = ErrNil
                       /\ EtcdList(Store(NoFail), p, recursive).keys = <<>>
                       /\ EtcdListKeys(Store(NoFail), p, recursive).err = ErrNil
                       /\ EtcdListKeys(Store(NoFail), p, recursive).keys = <<>>
                /\ EtcdGet(Store(NoFail), p).err = ErrKeyNotExist
                /\ EtcdGet(Store(NoFail), p).value = <<>>
           ELSE EtcdGet(Store(NoFail), p).err = ErrNil
    /\ \A n \in Nodes :
           fullKey(keysForNodeDir(n)) \notin dirs
               => KeysForNode(Store(NoFail), n) \in {[st |-> Store(NoFail), err |-> ErrNil, keys |-> <<>>]}
    /\ \A k \in Keys :
           fullKey(nodesForKeyDir(k)) \notin dirs
               => NodesForKey(Store(NoFail), k) \in {[st |-> Store(NoFail), err |-> ErrNil, keys |-> <<>>]}
    /\ fullKey(nodesPrefix) \notin dirs
           => NodesInCluster(Store(NoFail)) \in {[st |-> Store(NoFail), err |-> ErrNil, keys |-> <<>>]}

\* The index directory of one node is missing (it never existed, or it went
\* with the node's lease) while the other node's index lists a key.
C22_Witness ==
    \E n, m \in Nodes :
        /\ fullKey(keysForNodeDir(n)) \notin dirs
        /\ KeysForNode(Store(NoFail), n).keys = <<>>
        /\ KeysForNode(Store(NoFail), m).keys # <<>>
        /\ EtcdGet(Store(NoFail), keysForNodeDir(n)).err = ErrKeyNotExist
        /\ EtcdGet(Store(NoFail), keysForNodeDir(m)).err = ErrNil

\* The number of separators string s begins with.
RECURSIVE LeadingSlashes(_)
LeadingSlashes(s) ==
    IF Len(s) = 0 \/ s[1] # Sep THEN 0 ELSE 1 + LeadingSlashes(Tail(s))

\* C23: for any input string s other than "/", the normalized key slash(s)
\* begins with exactly one "/" and does not end with "/".
C23_SlashNormalizes ==
    rawKey # <<Sep>> =>
        /\ LeadingSlashes(slash(rawKey)) = 1
        /\ ~HasSuffix(slash(rawKey), <<Sep>>)

\* The markers of the pair (key, node) that store st holds.
MarkersIn(st, key, node) == {DataMarker(key, node), KeyMarker(node, key)} \cap st.leaves

\* C24: in a RoundTrip of the client's keyed transport, a candidate whose
\* attempt ended in a transport error or in a status outside [200, 399] has
\* neither marker for the key when RoundTrip returns; the candidate that
\* succeeded and the candidates that were never attempted have the markers
\* they had before.
C24_DeregisteredIffFailed ==
    tr # NoTransport =>
        \A answer \in CandidateAnswers(tr) :
            LET r == RoundTrip(Store(NoFail), tr, answer)
                failed(c) == /\ \E i \in DOMAIN r.log : IsTry(r.log[i]) /\ r.log[i].node = c
                             /\ ~Succeeds(answer[c])
            IN  \A c \in SeqToSet(tr.nodes) :
                    IF failed(c)
                    THEN MarkersIn(r.st, tr.key, c) = {}
                    ELSE MarkersIn(r.st, tr.key, c) = MarkersIn(Store(NoFail), tr.key, c)

\* What a node can answer to a liveness request: success, a status outside
\* the band, no connection, or a status outside the band with a body that
\* cannot be read.
LivenessResponses == {Http(StatusOK), Http(500), TransportError, BrokenBody(500)}

\* C25: in a balancer cycle, every registration (k, m) of the KeyMap snapshot
\* whose liveness request fails has neither marker when the cycle ends, and
\* every registration whose liveness request succeeds has the markers it
\* had before the cycle.
C25_LivenessDecidesRegistration ==
    \A n \in Nodes :
        nstate[n] = "running" =>
            \A order \in Orders(KeyMapKeys(Store(NoFail))), answer \in [Nodes -> LivenessResponses] :
                LET r == balance(Store(NoFail), n, order, answer, 1)
                    snapshot == KeyMap(Store(NoFail)).map
                IN  \A k \in DOMAIN snapshot :
                        \A m \in SeqToSet(snapshot[k]) :
                            IF Succeeds(answer[m])
                            THEN MarkersIn(r.st, k, m) = MarkersIn(Store(NoFail), k, m)
                            ELSE MarkersIn(r.st, k, m) = {}

\* C26: a balancer cycle processes every key of its snapshot, whatever
\* fails on the way: with x = 0, every key of the snapshot that is
\* registered to the balancing node gets its Provider.Update in the cycle,
\* also when the store stops answering during the Registry.Add of another
\* key (the store answers KeyMap and NodesInCluster, and at most one more
\* call).
C26_EveryKeyProcessed ==
    \A n \in Nodes :
        nstate[n] = "running" =>
            \A order \in Orders(KeyMapKeys(Store(NoFail))), answer \in LivenessAnswers, b \in {NoFail, 2, 3} :
                LET r == balance(Store(b), n, order, answer, 0)
                    snapshot == KeyMap(Store(NoFail)).map
                IN  \A k \in DOMAIN snapshot :
                        n \in SeqToSet(snapshot[k]) => k \in r.updates

\* C27: when the watcher of a node handles an event and Provider.Update
\* returns an error, the watcher keeps its watch and its queue: the events
\* behind the failed one are still to be handled, and each of them that is
\* not a delete leads to a Provider.Update call.
C27_UpdateErrorKeepsWatcher ==
    [][\A n \in watching :
           (/\ recv[n] # <<>>
            /\ HandleEvent(n, Head(recv[n])).err # ErrNil
            /\ Len(recv'[n]) < Len(recv[n]))
               => /\ n \in watching'
                  /\ recv'[n] = Tail(recv[n])
                  /\ \A i \in DOMAIN recv'[n] :
                         ~IsDelete(recv'[n][i].action) => HandleEvent(n, recv'[n][i]).called]_vars

\* The watcher of a node has an event to handle whose Provider.Update will
\* fail, and behind it an event that is not a delete.
C27_Witness ==
    \E n \in watching :
        /\ Len(recv[n]) >= 2
        /\ HandleEvent(n, recv[n][1]).called
        /\ HandleEvent(n, recv[n][1]).err # ErrNil
        /\ ~IsDelete(recv[n][2].action)

\* C28: at any time at most one Provider.Update call is in progress on a
\* node, the calls of its watcher and of its balancer counted together.
C28_OneUpdateAtATime == \A n \in Nodes : Cardinality(updating[n]) <= 1

\* C29: a node that Start has returned from and that was not stopped or
\* suspended, whose refresher fires every NodeMembershipTTL and whose
\* refreshes all succeed, is in NodesInCluster in every state.
C29_RunningNodeStaysMember ==
    \A n \in Nodes :
        (nstate[n] = "running" /\ "refresher" \in tasks[n])
            => n \in SeqToSet(NodesInCluster(Store(NoFail)).keys)

\* C30: a membership refresh of node n succeeds when the store answers,
\* whether nodes/n existed or not; after a refresh that returned no error
\* nodes/n exists with its TTL at NodeMembershipTTL, every value entry of
\* the store (the markers under nodes/n/__keys among them) is as it was,
\* no directory is lost, and no other TTL has changed.
C30_RefreshResetsLease ==
    \A n \in Nodes, b \in {NoFail, 1, 2} :
        LET r == refreshClusterMembership(Store(b), n)
        IN  /\ b = NoFail => r.err = ErrNil
            /\ r.err = ErrNil =>
                   /\ MemberDir(n) \in r.st.dirs
                   /\ MemberDir(n) \in DOMAIN r.st.ttl
                   /\ r.st.ttl[MemberDir(n)] = NodeMembershipTTL
                   /\ r.st.leaves = leaves
                   /\ r.st.dirs = dirs \cup {MemberDir(n)} \cup Ancestors(MemberDir(n))
                   /\ \A p \in DOMAIN ttl \ {MemberDir(n)} :
                          p \in DOMAIN r.st.ttl /\ r.st.ttl[p] = ttl[p]

\* The lease of a node is in its last second and a key marker lies under
\* it, while the other node has no membership directory: a refresh of the
\* first updates the directory, a refresh of the second creates it.
C30_Witness ==
    \E n, m \in Nodes, k \in Keys :
        /\ MemberDir(n) \in DOMAIN ttl
        /\ ttl[MemberDir(n)] = 1
        /\ KeyMarker(n, k) \in leaves
        /\ MemberDir(m) \notin dirs
        /\ refreshClusterMembership(Store(NoFail), n).st.ttl[MemberDir(n)] = NodeMembershipTTL
        /\ MemberDir(m) \in refreshClusterMembership(Store(NoFail), m).st.dirs

\* C31: callers (clients and balancer cycles) that heal the same key
\* concurrently, each between choosing its node and registering it, have
\* chosen the same node.
C31_ConcurrentHealsAgree ==
    \A c, d \in inflight :
        c.op = "heal" /\ d.op = "heal" /\ c.key = d.key => c.nodes = d.nodes

\* C34: once every Registry.Add and Registry.Remove call has returned, the
\* two marker entries of every pair (key, node) are both present or both
\* absent, however the writes of the calls were interleaved.
C34_ReturnedCallsLeavePairs ==
    (\A c \in inflight : c.op \notin {"add", "remove"})
        => \A k \in Keys, n \in Nodes : ~OneMarker(k, n)

\* C35: a Client.Update(k) that has read NodesForKey(k) when a request
\* through the keyed transport of k removes the registration of a failed
\* node n, and that re-adds the nodes it read afterwards, leaves n out of
\* NodesForKey(k).
C35_RemovedStaysRemoved ==
    tr # NoTransport =>
        \A answer \in CandidateAnswers(tr) :
            LET nodes == NodesForKey(Store(NoFail), tr.key).keys
                r == RoundTrip(Store(NoFail), tr, answer)
                re == AddEach(r.st, tr.key, nodes)
                removed(c) == \E i \in DOMAIN r.log : /\ r.log[i].do = "remove"
                                                      /\ r.log[i].node = c
                                                      /\ r.log[i].err = ErrNil
            IN  Len(nodes) > 0 =>
                    \A c \in SeqToSet(tr.nodes) :
                        removed(c) => c \notin SeqToSet(NodesForKey(re.st, tr.key).keys)

\* C32: when Stop of a running node returns, no key is registered to the
\* node in either index and NodesInCluster does not list the node.
C32_StopDeregisters ==
    [][\A n \in Nodes :
           nstate[n] = "running" /\ nstate'[n] = "stopped" =>
               /\ \A k \in Keys : DataMarker(k, n) \notin leaves' /\ KeyMarker(n, k) \notin leaves'
               /\ MemberDir(n) \notin dirs']_vars

\* C36: once Stop of a node has returned, the node does not extend or
\* create its lease again, and a balancer cycle run when every started node
\* is stopped changes no registration and calls no Provider.Update.
C36_StoppedNodeIsSilent ==
    [][\A n \in Nodes :
           nstate[n] = "stopped" =>
               /\ MemberDir(n) \in DOMAIN ttl /\ MemberDir(n) \in DOMAIN ttl'
                      => ttl'[MemberDir(n)] <= ttl[MemberDir(n)]
               /\ MemberDir(n) \notin dirs => MemberDir(n) \notin dirs'
               /\ cycles' # cycles /\ (\A m \in Nodes : nstate[m] # "running")
                      => /\ leaves' = leaves
                         /\ "balancer" \in tasks[n] =>
                                \A order \in Orders(KeyMapKeys(Store(NoFail))),
                                   answer \in LivenessAnswers :
                                    balance(Store(NoFail), n, order, answer, 0).updates = {}]_vars

\* C40: Stop returns nil on a node that was never started, on a running
\* node and on a stopped node, and on a stopped node it changes nothing.
C40_StopAnyTime ==
    \A n \in Nodes :
        nstate[n] \in {"new", "running", "stopped"} =>
            /\ Stop(nstate[n]).err = ErrNil
            /\ nstate[n] = "stopped" => Stop(nstate[n]).state = nstate[n]

\* C37: with no member in the cluster, Client.Update of a key that has no
\* registered node, and a balancer cycle that meets such a key, end with
\* an error or nothing done: neither crashes and neither writes a marker.
C37_EmptyClusterHandled ==
    LET st == Store(NoFail)
    IN  Len(NodesInCluster(st).keys) = 0 =>
            \A k \in Keys :
                Len(NodesForKey(st, k).keys) = 0 =>
                    /\ ClientUpdate(st, k).err # ErrPanic
                    /\ ClientUpdate(st, k).st.leaves = leaves
                    /\ k \in KeyMapKeys(st) =>
                           \A n \in Nodes, order \in Orders(KeyMapKeys(st)),
                              answer \in LivenessAnswers, x \in {0, 1} :
                               /\ balance(st, n, order, answer, x).err # ErrPanic
                               /\ balance(st, n, order, answer, x).st.leaves = leaves

\* C38: when Start of a node has returned an error, no background goroutine
\* of the node is running, and the node does not extend or create its
\* lease afterwards.
C38_FailedStartLeavesNothing ==
    [][\A n \in Nodes :
           /\ nstate'[n] = "failed" => tasks'[n] = {}
           /\ nstate[n] = "failed" =>
                  /\ MemberDir(n) \in DOMAIN ttl /\ MemberDir(n) \in DOMAIN ttl'
                         => ttl'[MemberDir(n)] <= ttl[MemberDir(n)]
                  /\ MemberDir(n) \in dirs' /\ MemberDir(n) \notin dirs
                         => MemberDir(n) \notin DOMAIN ttl']_vars

\* C39: under every root prefix, the marker that Registry.Add(k, n) writes
\* into the node index lies in the subtree the watcher of n watches, and
\* the watcher hands k itself to Provider.Update on the event of that write.
C39_WatcherSeesAddedKeys ==
    \A n \in Nodes, k \in Keys :
        /\ Watches(watchKey(n), KeyMarker(n, k))
        /\ HandleEvent(n, [action |-> "set", key |-> KeyMarker(n, k)]).key = k

\* C33: on InMemoryBackend and on EtcdBackend, after Set(p, v) of a path
\* p = dir/key has succeeded, Get of p returns v and List of dir returns the
\* entries stored in dir as suffixes relative to dir (the same on both
\* backends, key among them, and key alone when dir holds nothing else),
\* with and without a leading slash on the paths of the calls.
C33_SetThenGetAndList ==
    \A dir \in {<<"q">>, <<"a">>}, key \in {<<"a">>, <<"b">>},
       lead \in {<<>>, <<Sep>>}, value \in {<<>>, <<"v">>, <<"w">>} :
        LET p == lead \o dir \o <<Sep>> \o key
            m == InMemorySet(mem, p, value)
            r == EtcdSetValue(Store(NoFail), p, value)
            others == {e \in DOMAIN mem : HasPrefix(e, slash(dir) \o <<Sep>>)} \ {slash(p)}
        IN  /\ r.err = ErrNil
            /\ \A g \in {p, slash(p), unslash(p)} :
                   /\ InMemoryGet(m, g) = [value |-> value, err |-> ErrNil]
                   /\ EtcdGet(r.st, g).value = value
                   /\ EtcdGet(r.st, g).err = ErrNil
            /\ \A d \in {dir, slash(dir)}, recursive \in BOOLEAN :
                   /\ key \in InMemoryList(m, d)
                   /\ SeqToSet(EtcdList(r.st, d, recursive).keys) = InMemoryList(m, d)
                   /\ others = {} => EtcdList(r.st, d, recursive).keys = <<key>>

\* Both backends hold dir/key entries with values, one directory with two.
C33_Witness ==
    /\ InMemoryGet(mem, <<"q", Sep, "a">>).value = <<"v">>
    /\ EtcdGet(Store(NoFail), <<Sep, "q", Sep, "a">>).value = <<"v">>
    /\ InMemoryList(mem, <<"q">>) = {<<"a">>, <<"b">>}
    /\ EtcdList(Store(NoFail), <<"a">>, FALSE).keys = <<>>

====
